---- MODULE Spec2Model ----
(***************************************************************************)
(* Model of the render job orchestration of render-server.js: the job      *)
(* table, the queue, the single render slot, the per-job controllers, the  *)
(* asynchronous pipeline of processQueue (one action per await), job       *)
(* cancellation, the debounced persistence of the job table, the cache     *)
(* clear handler and the reload of the job table at startup.               *)
(*                                                                         *)
(* Node runs every handler and every continuation to its next await        *)
(* without interleaving, so each action below is one such synchronous run. *)
(***************************************************************************)
EXTENDS Integers, Sequences, FiniteSets, TLC

VARIABLES
    jobs,            \* const jobs = new Map(): jobId -> job record
    jobControllers,  \* const jobControllers = new Map(): the job ids that have an entry
    queue,           \* const queue = []: job ids in arrival order
    isRendering,     \* let isRendering
    persistTimer,    \* let persistTimer: TRUE while a debounce timer is pending
    ctl,             \* the controller object created by processQueue for a job
    pc,              \* the await each job's processQueue invocation is suspended at
    desc,            \* the job object handed to enqueueJob (video1Path, video2Path, bgm.path)
    nextId,          \* the next job id crypto.randomUUID() hands out (ids are never reused)
    jobsFile,        \* contents of renders/jobs.json
    uploads,         \* files present in renders/uploads
    cache,           \* state of each artifact of renders/cache
    outputs,         \* files present in renders/output
    clearPc,         \* the await the POST /api/cache/clear handler is suspended at
    clearResp,       \* the last answer of POST /api/cache/clear
    clearsDone,      \* number of cache clears that went through
    restarts,        \* number of server restarts
    purge            \* the await the POST /api/asset/:assetId/purge handler is suspended at

vars == <<jobs, jobControllers, queue, isRendering, persistTimer, ctl, pc, desc, nextId,
          jobsFile, uploads, cache, outputs, clearPc, clearResp, clearsDone, restarts,
          purge>>

(***************************************************************************)
(* Bounds of the model.                                                    *)
(***************************************************************************)
MaxJobs == 3        \* jobs submitted in all; jobs of one video when the queue is studied
MaxMixedJobs == 2   \* jobs of every shape (one or two videos, with or without audio)
MaxAdminJobs == 2   \* jobs beside restarts and cache clears
MaxPurgeJobs == 1   \* jobs beside purges
MaxClears == 1
MaxRestarts == 1

JobIds == 1..MaxJobs

(***************************************************************************)
(* Uploaded media.  An upload is named assetId-originalName; the cache     *)
(* artifact of an upload is named from the asset id parsed back out of     *)
(* that name and the hash of its bytes.  A file name is the sequence of    *)
(* the parts its dashes separate.                                          *)
(***************************************************************************)
\* va: a 30 fps clip of asset "a";  vb: the same bytes uploaded as asset "b";
\* vn: a clip of asset "n" already in the target profile (23.976 fps);
\* vd: a clip of asset "a-x";  ma: a song of asset "m".
OneVideo == {"va"}
VideoUploads == {"va", "vb", "vn", "vd"}
AudioUploads == {"ma"}
Uploads == VideoUploads \cup AudioUploads
NoPath == "null"

\* `${assetId}-${original}`
FileName(u) ==
    CASE u = "va" -> <<"a", "clip.mp4">>
      [] u = "vb" -> <<"b", "clip.mp4">>
      [] u = "vn" -> <<"n", "clip.mp4">>
      [] u = "vd" -> <<"a", "x", "clip.mp4">>
      [] u = "ma" -> <<"m", "song.m4a">>
      [] OTHER -> <<"upload">>

\* base.slice(0, base.indexOf('-')), or 'asset' when there is no dash or nothing before it
getAssetIdFromPath(u) ==
    IF Len(FileName(u)) <= 1 \/ FileName(u)[1] = "" THEN "asset" ELSE FileName(u)[1]

\* sha256 of the bytes: va and vb are the same bytes
hashFile(u) ==
    CASE u = "va" -> "h1" [] u = "vb" -> "h1" [] u = "ma" -> "h2" [] u = "vn" -> "h3"
      [] u = "vd" -> "h4" [] OTHER -> "h0"

\* path.join(CACHE_VIDEO_DIR, `${assetId}-${inputHash}-cfr24.mp4`)
VideoArtifact(u) == <<getAssetIdFromPath(u), hashFile(u), "cfr24.mp4">>
\* path.join(CACHE_AUDIO_DIR, `${assetId}-${inputHash}-48k.wav`)
AudioArtifact(u) == <<getAssetIdFromPath(u), hashFile(u), "48k.wav">>
Artifacts == {VideoArtifact(u) : u \in VideoUploads} \cup {AudioArtifact(u) : u \in AudioUploads}

\* meta.video of probeMedia, frame rates in thousandths of a frame per second
probeMedia(u) ==
    CASE u = "vn" -> [codec |-> "h264", pixFmt |-> "yuv420p", avgFps |-> 23976, rFps |-> 24000]
      [] u = "vd" -> [codec |-> "hevc", pixFmt |-> "yuv420p", avgFps |-> 24000, rFps |-> 24000]
      [] OTHER -> [codec |-> "h264", pixFmt |-> "yuv420p", avgFps |-> 30000, rFps |-> 30000]

\* isNearly(a, b, epsilon = 0.05)
Abs(x) == IF x < 0 THEN 0 - x ELSE x
isNearly(a, b) == Abs(a - b) <= 50

\* the test of the fast path with the average frame rate required to be 24 exactly
MeetsProfile_Exact24(u) ==
    /\ u \in VideoUploads
    /\ probeMedia(u).codec = "h264"
    /\ probeMedia(u).pixFmt = "yuv420p"
    /\ probeMedia(u).avgFps = 24000
    /\ isNearly(IF probeMedia(u).rFps # 0 THEN probeMedia(u).rFps ELSE probeMedia(u).avgFps,
                probeMedia(u).avgFps)

\* The probe of the upload meets the h264/yuv420p/24fps profile.
MeetsProfile(u) ==
    /\ u \in VideoUploads
    /\ probeMedia(u).codec = "h264"
    /\ probeMedia(u).pixFmt = "yuv420p"
    /\ isNearly(probeMedia(u).avgFps, 24000)
    /\ isNearly(IF probeMedia(u).rFps # 0 THEN probeMedia(u).rFps ELSE probeMedia(u).avgFps,
                probeMedia(u).avgFps)

(***************************************************************************)
(* Job records.                                                            *)
(***************************************************************************)
Undefined == "undefined"
NoProgress == 0 - 1
Null == "null"
CancelledMsg == "Render cancelled by user."
RestartMsg == "Render server restarted before completion."
ToolError == "tool error"

DownloadUrl(j) == "/api/download/" \o ToString(j)
\* text.replace(/[^a-zA-Z0-9._-]/g, '_') || 'asset' (no id here is longer than 160)
sanitizeName(text) ==
    IF text = <<>> THEN <<"asset">>
    ELSE [i \in 1..Len(text) |-> IF text[i] \in {" ", "/"} THEN "_" ELSE text[i]]

\* the display names of the render requests (sequences of characters): none,
\* "c c" and "c_c"
NoName == <<>>
RenderNames == {NoName, <<"c", " ", "c">>, <<"c", "_", "c">>}

RECURSIVE Join(_)
\* the string of a sequence of characters
Join(chars) == IF chars = <<>> THEN "" ELSE Head(chars) \o Join(Tail(chars))

\* sanitizeName(name || `render-${jobId}`)
OutputName(name, j) ==
    IF name = NoName THEN "render-" \o ToString(j) ELSE Join(sanitizeName(name))

\* path.join(OUTPUT_DIR, `${outputName}.mp4`)
OutputPath(name, j) == "output/" \o OutputName(name, j) \o ".mp4"

\* `jobs.get(jobId) || {}`: a record none of whose fields is set
EmptyJob == [status |-> Undefined, progress |-> NoProgress, error |-> Undefined,
             outputUrl |-> Undefined, outputPath |-> Undefined]

ActiveStatuses == {"queued", "normalizing", "rendering", "cancelling"}
TerminalStatuses == {"completed", "failed", "cancelled"}

Range(s) == {s[i] : i \in 1..Len(s)}


(***************************************************************************)
(* The scheduler's in-memory state as one value, so that the synchronous   *)
(* calls of a handler (updateJob, processQueue, the finally block) compose *)
(* into one step.                                                          *)
(***************************************************************************)
Cur == [jobs |-> jobs, jobControllers |-> jobControllers, queue |-> queue,
        isRendering |-> isRendering, persistTimer |-> persistTimer, ctl |-> ctl, pc |-> pc,
        desc |-> desc]

\* (the quantifier over a singleton makes TLC compute the value once)
Commit(S) ==
    \E T \in {S} :
        /\ jobs' = T.jobs
        /\ jobControllers' = T.jobControllers
        /\ queue' = T.queue
        /\ isRendering' = T.isRendering
        /\ persistTimer' = T.persistTimer
        /\ ctl' = T.ctl
        /\ pc' = T.pc
        /\ desc' = T.desc

\* the one element of a singleton
The(set) == CHOOSE x \in set : TRUE

\* { ...updates }: the record replaced wholesale
Merge_Replace(current, updates) ==
    [f \in DOMAIN current |-> IF f \in DOMAIN updates THEN updates[f] ELSE EmptyJob[f]]

\* { ...current, ...updates }
Merge(current, updates) ==
    [f \in DOMAIN current |-> IF f \in DOMAIN updates THEN updates[f] ELSE current[f]]

\* schedulePersistJobs arming no timer
schedulePersistJobs_NoTimer(S) == S

\* schedulePersistJobs: the pending timer, if any, is replaced by a new one
schedulePersistJobs(S) == [S EXCEPT !.persistTimer = TRUE]

updateJob(S, jobId, updates) ==
    The({ LET current == IF jobId \in DOMAIN T.jobs THEN T.jobs[jobId] ELSE EmptyJob
          IN schedulePersistJobs(
               [T EXCEPT !.jobs = [k \in DOMAIN T.jobs \cup {jobId} |->
                                     IF k = jobId THEN Merge(current, updates) ELSE T.jobs[k]]])
          : T \in {S} })

NewController == [cancelled |-> FALSE, activeProcess |-> FALSE]

(***************************************************************************)
(* The gain of the background audio.  Decibel values are integers, linear  *)
(* gains are thousandths.                                                  *)
(***************************************************************************)
MIN_DB == 0 - 20
MAX_DB == 20

\* a field that is absent or not a finite number: Number.isFinite(Number(x)) fails
NotFinite == 0 - 1000000

\* the volume fields of the bgm of a request: nothing, a linear volume of
\* 0.5, and decibel values inside and outside the range, with or without it
NoMix == [volumeDb |-> NotFinite, volume |-> NotFinite]
Mixes == [volumeDb : {NotFinite, 0 - 30, 0 - 14, 25}, volume : {NotFinite, 500}]

\* clampDb leaving the value as it is
clampDb_NoClamp(value) == value

\* Math.min(MAX_DB, Math.max(MIN_DB, value))
clampDb(value) ==
    IF value > MAX_DB THEN MAX_DB ELSE IF value < MIN_DB THEN MIN_DB ELSE value

\* 1000 * 10^(r / 20) for r = 0..19, to the nearest thousandth
TwentiethPowers ==
    <<1000, 1122, 1259, 1413, 1585, 1778, 1995, 2239, 2512, 2818,
      3162, 3548, 3981, 4467, 5012, 5623, 6310, 7079, 7943, 8913>>

RECURSIVE TenTo(_)
TenTo(n) == IF n = 0 THEN 1 ELSE 10 * TenTo(n - 1)

\* Math.pow(10, d / 20) in thousandths, for a whole number of decibels
Pow10Over20(d) ==
    LET r == d % 20
        q == (d - r) \div 20
    IN IF q >= 0 THEN TwentiethPowers[r + 1] * TenTo(q)
       ELSE TwentiethPowers[r + 1] \div TenTo(0 - q)

\* Math.pow(10, clampDb(db) / 20)
dbToGain(db) == Pow10Over20(clampDb(db))

\* resolveVolumeGain of a present bgm: the decibel value if finite, else the
\* linear volume if finite, else 1
resolveVolumeGain(bgm) ==
    IF bgm.volumeDb # NotFinite THEN dbToGain(bgm.volumeDb)
    ELSE IF bgm.volume # NotFinite THEN bgm.volume
    ELSE 1000
\* the job object of enqueueJob (volume: job.bgm.volume), the volume handed to
\* the engine in inputProps.bgm, and the volume fields of the request body,
\* which no step reads
NoJob == [name |-> NoName, video1 |-> NoPath, video2 |-> NoPath, bgm |-> NoPath,
          volume |-> NotFinite, handed |-> NotFinite, request |-> NoMix]

Idle == <<"-", "idle">>
Done == <<"-", "done">>

\* processQueue without the test of the busy flag
processQueue_NoBusyCheck(S) ==
    The({ IF T.queue = <<>>
          THEN T
          ELSE LET job == Head(T.queue)
                   S1 == [T EXCEPT !.queue = Tail(@),
                                   !.isRendering = TRUE,
                                   !.jobControllers = @ \cup {job},
                                   !.ctl[job] = NewController,
                                   !.pc[job] = <<"v1", "prep">>]
               IN updateJob(S1, job, [status |-> "normalizing", progress |-> 1, error |-> Null])
          : T \in {S} })

\* processQueue with queue.pop() in place of queue.shift()
processQueue_LIFO(S) ==
    The({ IF T.isRendering \/ T.queue = <<>>
          THEN T
          ELSE LET job == T.queue[Len(T.queue)]
                   S1 == [T EXCEPT !.queue = SubSeq(@, 1, Len(@) - 1),
                                   !.isRendering = TRUE,
                                   !.jobControllers = @ \cup {job},
                                   !.ctl[job] = NewController,
                                   !.pc[job] = <<"v1", "prep">>]
               IN updateJob(S1, job, [status |-> "normalizing", progress |-> 1, error |-> Null])
          : T \in {S} })

\* processQueue starting queue[0] and leaving it in the queue
processQueue_KeepsHead(S) ==
    The({ IF T.isRendering \/ T.queue = <<>>
          THEN T
          ELSE LET job == Head(T.queue)
                   S1 == [T EXCEPT !.isRendering = TRUE,
                                   !.jobControllers = @ \cup {job},
                                   !.ctl[job] = NewController,
                                   !.pc[job] = <<"v1", "prep">>]
               IN updateJob(S1, job, [status |-> "normalizing", progress |-> 1, error |-> Null])
          : T \in {S} })

\* processQueue up to its first await (the probe of video 1).  The check of
\* controller.cancelled at line 477 reads the flag of the controller created
\* four lines above it, which nothing has had the chance to set.
processQueue(S) ==
    The({ IF T.isRendering \/ T.queue = <<>>
          THEN T
          ELSE LET job == Head(T.queue)
                   S1 == [T EXCEPT !.queue = Tail(@),
                                   !.isRendering = TRUE,
                                   !.jobControllers = @ \cup {job},
                                   !.ctl[job] = NewController,
                                   !.pc[job] = <<"v1", "prep">>]
               IN updateJob(S1, job, [status |-> "normalizing", progress |-> 1, error |-> Null])
          : T \in {S} })

\* the finally block without the call of processQueue
finallyBlock_NoNext(S, j) ==
    [S EXCEPT !.isRendering = FALSE,
              !.jobControllers = @ \ {j},
              !.pc[j] = Done,
              !.ctl[j] = NewController,
              !.desc[j] = NoJob]

\* finally { isRendering = false; jobControllers.delete(job.jobId); processQueue(); }
\* The invocation ends here: nothing refers to its job object and controller any more.
finallyBlock(S, j) ==
    processQueue([S EXCEPT !.isRendering = FALSE,
                           !.jobControllers = @ \ {j},
                           !.pc[j] = Done,
                           !.ctl[j] = NewController,
                           !.desc[j] = NoJob])

\* the catch block without the test of controller.cancelled
catchBlock_AlwaysFailed(S, j) ==
    finallyBlock(updateJob(S, j, [status |-> "failed", error |-> ToolError]), j)

\* the catch block reporting every failure as a cancellation
catchBlock_AlwaysCancelled(S, j) ==
    finallyBlock(updateJob(S, j, [status |-> "cancelled", error |-> CancelledMsg]), j)

\* catch (error) { updateJob(..., controller.cancelled ? cancelled : failed) } finally {...}
catchBlock(S, j) ==
    finallyBlock(
        updateJob(S, j, [status |-> IF S.ctl[j].cancelled THEN "cancelled" ELSE "failed",
                         error |-> IF S.ctl[j].cancelled THEN CancelledMsg ELSE ToolError]),
        j)

\* if (controller.cancelled) { updateJob(cancelled); return; } (the finally block still runs)
cancelledAtCheckpoint(S, j) ==
    finallyBlock(updateJob(S, j, [status |-> "cancelled", error |-> CancelledMsg]), j)

\* updateJob(job.jobId, { status: 'rendering', progress: 5, error: null }); await selectComposition
toRendering(S, j) ==
    [updateJob(S, j, [status |-> "rendering", progress |-> 5, error |-> Null])
        EXCEPT !.pc[j] = <<"-", "select">>]

\* what follows the normalization of the videos: the audio slot, if the job has one
afterVideos(S, j) ==
    IF S.desc[j].bgm # NoPath
    THEN [S EXCEPT !.pc[j] = <<"a", "prep">>]
    ELSE toRendering(S, j)

\* what follows `await normalizeVideoInput(job.video1Path)`
afterVideo1(S, j) ==
    IF S.ctl[j].cancelled THEN cancelledAtCheckpoint(S, j)
    ELSE IF S.desc[j].video2 # NoPath THEN [S EXCEPT !.pc[j] = <<"v2", "prep">>]
    ELSE afterVideos(S, j)

\* what follows the normalization of video 2, the test of the flag left out
afterVideo2_NoCheckpoint(S, j) == afterVideos(S, j)

\* what follows `await normalizeVideoInput(job.video2Path)`
afterVideo2(S, j) ==
    IF S.ctl[j].cancelled THEN cancelledAtCheckpoint(S, j)
    ELSE afterVideos(S, j)

\* what follows transcodeAudioToWav and the probe of its result: inputProps.bgm
\* is filled in, its volume resolved from the stored job; no check of the flag
afterAudio(S, j) ==
    toRendering([S EXCEPT !.desc[j].handed =
                     resolveVolumeGain([volumeDb |-> NotFinite, volume |-> S.desc[j].volume])], j)

Stage(j) == pc[j][1]
Step(j) == pc[j][2]

\* the upload the running stage of job j reads
Source(j) ==
    CASE Stage(j) = "v1" -> desc[j].video1
      [] Stage(j) = "v2" -> desc[j].video2
      [] Stage(j) = "a" -> desc[j].bgm
      [] OTHER -> NoPath

\* the cache artifact the running stage of job j resolves to
Artifact(j) == IF Stage(j) = "a" THEN AudioArtifact(Source(j)) ELSE VideoArtifact(Source(j))

FastPath(j) == Stage(j) # "a" /\ MeetsProfile(Source(j))

UnchangedFiles == UNCHANGED <<jobsFile, uploads, cache, outputs>>
UnchangedAdmin == UNCHANGED <<clearPc, clearResp, clearsDone, restarts, purge>>


(***************************************************************************)
(* POST /api/upload and POST /api/render.                                  *)
(***************************************************************************)
\* multer stores the file as assetId-originalName in renders/uploads
Upload(u) ==
    /\ uploads' = uploads \cup {u}
    /\ UNCHANGED <<jobs, jobControllers, queue, isRendering, persistTimer, ctl, pc, desc,
                   nextId, jobsFile, cache, outputs>>
    /\ UnchangedAdmin

\* queue.push(job); updateJob(queued); processQueue()
enqueueJob(S, j) ==
    processQueue(
        updateJob([S EXCEPT !.queue = Append(@, j)], j,
                  [status |-> "queued", progress |-> 0, outputPath |-> OutputPath(S.desc[j].name, j)]))

\* The handler answers 400 and enqueues nothing unless video1 and, if given,
\* video2 exist on disk; the path of the background audio is not looked at.
SubmitRender(name, mix, v1, v2, bgm) ==
    /\ nextId <= MaxJobs
    /\ v1 \in uploads
    /\ v2 # NoPath => v2 \in uploads
    /\ nextId' = nextId + 1
    /\ Commit(enqueueJob([Cur EXCEPT !.desc[nextId] =
                                       [name |-> name, video1 |-> v1, video2 |-> v2,
                                        bgm |-> bgm,
                                        volume |-> IF bgm = NoPath THEN NotFinite
                                                   ELSE resolveVolumeGain(mix),
                                        handed |-> NotFinite,
                                        request |-> mix]], nextId))
    /\ UnchangedFiles
    /\ UnchangedAdmin

(***************************************************************************)
(* The continuations of processQueue, one per await.                       *)
(***************************************************************************)
\* the same without the test fileExists(outputPath): ffmpeg is spawned off the
\* fast path whether or not the artifact is there
PrepDone_NoCacheHit(j) ==
    /\ Step(j) = "prep"
    /\ \/ /\ Commit(catchBlock(Cur, j))
       \/ /\ Source(j) \in uploads
          /\ FastPath(j)
          /\ Commit([Cur EXCEPT !.pc[j] = <<Stage(j), "probe">>])
       \/ /\ Source(j) \in uploads
          /\ ~FastPath(j)
          /\ Commit([Cur EXCEPT !.pc[j] = <<Stage(j), "ffmpeg">>,
                                !.ctl[j].activeProcess = TRUE])
    /\ UNCHANGED nextId
    /\ UnchangedFiles
    /\ UnchangedAdmin

\* normalizeVideoTo24Fps / transcodeAudioToWav up to the spawn of ffmpeg:
\* probe (video only), hashFile, ensureDir, fileExists(outputPath).
PrepDone(j) ==
    /\ Step(j) = "prep"
    /\ \/ \* the probe or the hash throws (always so when the upload is gone)
          /\ Commit(catchBlock(Cur, j))
       \/ \* the source meets the profile, or the artifact exists: go on to probe the result
          /\ Source(j) \in uploads
          /\ FastPath(j) \/ cache[Artifact(j)] # "absent"
          /\ Commit([Cur EXCEPT !.pc[j] = <<Stage(j), "probe">>])
       \/ \* no artifact: runFfmpeg spawns the process and records it in the controller
          /\ Source(j) \in uploads
          /\ ~FastPath(j)
          /\ cache[Artifact(j)] = "absent"
          /\ Commit([Cur EXCEPT !.pc[j] = <<Stage(j), "ffmpeg">>,
                                !.ctl[j].activeProcess = TRUE])
    /\ UNCHANGED nextId
    /\ UnchangedFiles
    /\ UnchangedAdmin

\* ffmpeg -y ... outputPath: the process creates (or truncates) the file at the
\* final artifact name and writes into it while it runs
FfmpegOpensOutput(j) ==
    /\ Step(j) = "ffmpeg"
    /\ ctl[j].activeProcess
    /\ Source(j) \in uploads
    /\ cache' = [cache EXCEPT ![Artifact(j)] = "partial"]
    /\ pc' = [pc EXCEPT ![j] = <<Stage(j), "writing">>]
    /\ UNCHANGED <<jobs, jobControllers, queue, isRendering, persistTimer, ctl, desc, nextId,
                   jobsFile, uploads, outputs>>
    /\ UnchangedAdmin

\* proc.on('close'): exit code 0 resolves, anything else (a signal included) rejects.
\* A process that was killed (the controller no longer holds it) cannot exit with 0.
FfmpegClose(j, ok) ==
    /\ Step(j) \in {"ffmpeg", "writing"}
    /\ ok => (Step(j) = "writing" /\ ctl[j].activeProcess)
    /\ IF ok
       THEN /\ cache' = [cache EXCEPT ![Artifact(j)] = IF @ = "partial" THEN "ok" ELSE @]
            /\ Commit([Cur EXCEPT !.ctl[j].activeProcess = FALSE,
                                  !.pc[j] = <<Stage(j), "probe">>])
       ELSE /\ cache' = cache
            /\ Commit(catchBlock([Cur EXCEPT !.ctl[j].activeProcess = FALSE], j))
    /\ UNCHANGED <<nextId, jobsFile, uploads, outputs>>
    /\ UnchangedAdmin

\* the path the stage of job j returns: the source itself on the fast path
Resolved(j) == IF FastPath(j) THEN Source(j) ELSE Artifact(j)

\* the file the stage resolved to is there
ResolvedExists(j) ==
    IF FastPath(j) THEN Source(j) \in uploads ELSE cache[Artifact(j)] # "absent"

\* `await probeMedia(normalizedPath)` returns; then the code up to the next await
ProbeDone(j, ok) ==
    /\ Step(j) = "probe"
    /\ ok => ResolvedExists(j)
    /\ Commit(IF ~ok THEN catchBlock(Cur, j)
              ELSE CASE Stage(j) = "v1" -> afterVideo1(Cur, j)
                     [] Stage(j) = "v2" -> afterVideo2(Cur, j)
                     [] OTHER -> afterAudio(Cur, j))
    /\ UNCHANGED nextId
    /\ UnchangedFiles
    /\ UnchangedAdmin

\* `await selectComposition(...)` returns; renderMedia is called next
SelectDone(j, ok) ==
    /\ Step(j) = "select"
    /\ Commit(IF ok THEN [Cur EXCEPT !.pc[j] = <<"-", "render">>] ELSE catchBlock(Cur, j))
    /\ UNCHANGED nextId
    /\ UnchangedFiles
    /\ UnchangedAdmin

\* Engine progress is a fraction, here in hundredths.
EngineProgress == {30, 80}

\* Math.min(100, Math.max(5, Math.round(5 + progress * 95))), progress = p / 100
Min(a, b) == IF a <= b THEN a ELSE b
Max(a, b) == IF a >= b THEN a ELSE b
\* the same with Math.floor in place of Math.round
Percentage_Floor(p) == Min(100, Max(5, (500 + 95 * p) \div 100))

Percentage(p) == Min(100, Max(5, (2 * (500 + 95 * p) + 100) \div 200))

\* onProgress without the test of the flag
onProgress_NoGuard(S, j, p) == updateJob(S, j, [progress |-> Percentage(p)])

\* onProgress: ({ progress }) => { if (controller.cancelled) return; updateJob(progress) }
onProgress(S, j, p) ==
    IF S.ctl[j].cancelled THEN S ELSE updateJob(S, j, [progress |-> Percentage(p)])

RenderProgress(j, p) ==
    /\ Step(j) = "render"
    /\ Commit(onProgress(Cur, j, p))
    /\ UNCHANGED nextId
    /\ UnchangedFiles
    /\ UnchangedAdmin

\* the update after renderMedia, the download URL left out
completeJob_NoUrl(S, j) ==
    updateJob(S, j, [status |-> "completed", progress |-> 100])

\* the update after renderMedia, the status left as it was
completeJob_KeepsStatus(S, j) ==
    updateJob(S, j, [progress |-> 100, outputUrl |-> DownloadUrl(j)])

\* updateJob(job.jobId, { status: 'completed', progress: 100, outputUrl })
completeJob(S, j) ==
    updateJob(S, j, [status |-> "completed", progress |-> 100, outputUrl |-> DownloadUrl(j)])

\* `await renderMedia(...)` returns.  The engine rejects once its cancel signal
\* has fired (makeCancelSignal), so it resolves only for a job not cancelled.
RenderDone(j, ok) ==
    /\ Step(j) = "render"
    /\ ok => ~ctl[j].cancelled
    /\ IF ok
       THEN /\ outputs' = outputs \cup {OutputPath(desc[j].name, j)}
            /\ Commit(finallyBlock(completeJob(Cur, j), j))
       ELSE /\ outputs' = outputs
            /\ Commit(catchBlock(Cur, j))
    /\ UNCHANGED <<nextId, jobsFile, uploads, cache>>
    /\ UnchangedAdmin

(***************************************************************************)
(* POST /api/render/:jobId/cancel                                          *)
(***************************************************************************)
\* controller.cancelled = true; controller.cancel(); kill the active process
cancelController(S, j) ==
    [S EXCEPT !.ctl[j] = [cancelled |-> TRUE, activeProcess |-> FALSE]]

\* cancelJob marking a queued job cancelled without taking it out of the queue
cancelJob_NoSplice(S, jobId) ==
    IF jobId \notin DOMAIN S.jobs THEN S
    ELSE IF S.jobs[jobId].status \in TerminalStatuses THEN S
    ELSE LET S1 == IF jobId \in S.jobControllers
                   THEN updateJob(cancelController(S, jobId), jobId,
                                  [status |-> "cancelling", error |-> Null])
                   ELSE S
         IN IF jobId \in Range(S1.queue)
            THEN updateJob(S1, jobId, [status |-> "cancelled", error |-> CancelledMsg])
            ELSE S1

\* cancelJob marking cancelled whatever job has no controller, stopped jobs included
cancelJob_MarksStopped(S, jobId) ==
    IF jobId \notin DOMAIN S.jobs THEN S
    ELSE IF S.jobs[jobId].status = "completed" THEN S
    ELSE IF jobId \in S.jobControllers
         THEN updateJob(cancelController(S, jobId), jobId,
                        [status |-> "cancelling", error |-> Null])
         ELSE updateJob([S EXCEPT !.queue = SelectSeq(@, LAMBDA q : q # jobId),
                                  !.desc[jobId] = NoJob], jobId,
                        [status |-> "cancelled", error |-> CancelledMsg])

\* cancelJob deleting the record of the job it stops
cancelJob_DropsRecord(S, jobId) ==
    IF jobId \notin DOMAIN S.jobs THEN S
    ELSE IF S.jobs[jobId].status \in TerminalStatuses THEN S
    ELSE [cancelController(S, jobId) EXCEPT
              !.queue = SelectSeq(@, LAMBDA q : q # jobId),
              !.jobs = [k \in DOMAIN S.jobs \ {jobId} |-> S.jobs[k]]]

cancelJob(S, jobId) ==
    IF jobId \notin DOMAIN S.jobs THEN S
    ELSE IF S.jobs[jobId].status \in TerminalStatuses THEN S
    ELSE LET S1 == IF jobId \in S.jobControllers
                   THEN updateJob(cancelController(S, jobId), jobId,
                                  [status |-> "cancelling", error |-> Null])
                   ELSE S
         IN IF jobId \in Range(S1.queue)
            THEN updateJob([S1 EXCEPT !.queue = SelectSeq(@, LAMBDA q : q # jobId),
                                      !.desc[jobId] = NoJob], jobId,
                           [status |-> "cancelled", error |-> CancelledMsg])
            ELSE S1

\* the answer of the route, a completed job answered like a stopped one
cancelAnswer_CompletedOk(S, jobId) ==
    IF jobId \notin DOMAIN S.jobs THEN "400" ELSE "ok"

\* the answer of the route: 400 when cancelJob returns ok: false (job not found,
\* job already completed), { ok: true } otherwise
cancelAnswer(S, jobId) ==
    IF jobId \notin DOMAIN S.jobs THEN "400"
    ELSE IF S.jobs[jobId].status = "completed" THEN "400"
    ELSE "ok"

CancelRequest(j) ==
    /\ Commit(cancelJob(Cur, j))
    /\ UNCHANGED nextId
    /\ UnchangedFiles
    /\ UnchangedAdmin


(***************************************************************************)
(* GET /api/render/:jobId and GET /api/download/:jobId (both only read)    *)
(***************************************************************************)
\* the poll: 404 { status: 'missing' } for an unknown id, else the record
poll(j) == IF j \in DOMAIN jobs THEN jobs[j].status ELSE "missing"

\* `!job?.outputUrl`: no record, or a record without a download URL
download(j) ==
    IF j \notin DOMAIN jobs \/ jobs[j].outputUrl \in {Undefined, Null} THEN "404"
    ELSE IF jobs[j].outputPath \in outputs THEN "file"
    ELSE "error"

(***************************************************************************)
(* Persistence of the job table.                                           *)
(***************************************************************************)
EmptyTable == [k \in {} |-> EmptyJob]
\* jobs.json: whether it is there, what JSON.parse makes of it ("array", some
\* other value, or a syntax error), its entries with a jobId keyed by it, and
\* its entries without one
MissingFile == [exists |-> FALSE, shape |-> "array", table |-> EmptyTable, anonymous |-> {}]
\* JSON.stringify(payload): an array of { jobId, ...job }
ArrayFile(table) == [exists |-> TRUE, shape |-> "array", table |-> table, anonymous |-> {}]

\* the debounce timer fires: persistJobs writes the whole table, or fails and only warns
PersistFire(ok) ==
    /\ persistTimer
    /\ persistTimer' = FALSE
    /\ jobsFile' = IF ok THEN ArrayFile(jobs) ELSE jobsFile
    /\ UNCHANGED <<jobs, jobControllers, queue, isRendering, ctl, pc, desc, nextId,
                   uploads, cache, outputs>>
    /\ UnchangedAdmin

(***************************************************************************)
(* Cache administration.                                                   *)
(***************************************************************************)
\* hasActiveWork looking at the queue alone
hasActiveWork_QueueOnly(S) == S.queue # <<>>

hasActiveWork(S) ==
    \/ S.isRendering
    \/ S.jobControllers # {}
    \/ S.queue # <<>>
    \/ \E j \in DOMAIN S.jobs : S.jobs[j].status \in ActiveStatuses

\* readdir of a directory removed by a cache clear under way fails with ENOENT,
\* which deletePrefixedFiles and getDirStats swallow: nothing is listed
DirsMissing == clearPc = "rebuild"

\* stat.size of the files, in some unit: an upload, a cache artifact (finished
\* or being written), a render, the bundle and the job file
UploadBytes(u) == IF u \in AudioUploads THEN 10 ELSE IF hashFile(u) = "h1" THEN 40 ELSE 30
ArtifactBytes(a) == IF cache[a] = "ok" THEN 50 ELSE 5
OutputBytes(o) == 60
BundleBytes == 7
JobsFileBytes == 2 + 9 * Cardinality(DOMAIN jobsFile.table)

\* listFilesRecursive of each directory: { path, bytes } of every file
UploadFiles == {[path |-> <<"uploads", u>>, bytes |-> UploadBytes(u)] : u \in uploads}
CacheFiles ==
    {[path |-> <<"cache", a>>, bytes |-> ArtifactBytes(a)] : a \in {b \in Artifacts : cache[b] # "absent"}}
OutputFiles == {[path |-> <<"output", o>>, bytes |-> OutputBytes(o)] : o \in outputs}
\* the bundle is rebuilt at startup and by every clear
BundleFiles == {[path |-> <<"bundle", "index.html">>, bytes |-> BundleBytes]}

RECURSIVE SumBytes(_)
\* files.reduce((sum, file) => sum + file.bytes, 0)
SumBytes(files) ==
    IF files = {} THEN 0
    ELSE LET f == CHOOSE x \in files : TRUE IN f.bytes + SumBytes(files \ {f})

\* getDirStats counting the files as their bytes
getDirStats_FilesAsBytes(missing, files) ==
    IF missing THEN [files |-> 0, bytes |-> 0]
    ELSE [files |-> Cardinality(files), bytes |-> Cardinality(files)]

\* getDirStats: ENOENT counts as an empty directory
getDirStats(missing, files) ==
    IF missing THEN [files |-> 0, bytes |-> 0]
    ELSE [files |-> Cardinality(files), bytes |-> SumBytes(files)]

\* the whole answer of getCacheStats, the directories being there or not
StatsOf(missing) ==
    LET u == getDirStats(missing, UploadFiles)
        c == getDirStats(missing, CacheFiles)
        o == getDirStats(missing, OutputFiles)
        b == getDirStats(missing, BundleFiles)
        f == IF jobsFile.exists THEN [files |-> 1, bytes |-> JobsFileBytes]
             ELSE [files |-> 0, bytes |-> 0]
    IN [uploads |-> u, cache |-> c, output |-> o, bundle |-> b, jobsFile |-> f,
        total |-> [files |-> u.files + c.files + o.files + b.files + f.files,
                   bytes |-> u.bytes + c.bytes + o.bytes + b.bytes + f.bytes]]

\* the answer of GET /api/cache/stats
CacheStats == StatsOf(DirsMissing)

\* getCacheStats as the clear handler calls it, the directories being there (at
\* the second call clearRenderCache has recreated them), in files per bucket
\* (the bundle is rebuilt by every clear and left out)
getCacheStats ==
    [uploads |-> StatsOf(FALSE).uploads.files,
     cache |-> StatsOf(FALSE).cache.files,
     output |-> StatsOf(FALSE).output.files,
     jobsFile |-> StatsOf(FALSE).jobsFile.files]

NoStats == [uploads |-> 0, cache |-> 0, output |-> 0, jobsFile |-> 0]
\* code and after: the answer; force and active: what the handler read at lines 676-677
NoResponse == [code |-> "none", after |-> NoStats, force |-> FALSE, active |-> FALSE]

\* jobControllers.forEach(controller => { cancelled = true; cancel(); kill })
cancelAllControllers(S) ==
    [S EXCEPT !.ctl = [j \in JobIds |->
                         IF j \in S.jobControllers
                         THEN [cancelled |-> TRUE, activeProcess |-> FALSE]
                         ELSE S.ctl[j]]]

\* The handler up to `await getCacheStats()`: the 409, or the forced cancellation.
ClearRequest(force) ==
    /\ clearPc = "idle"
    /\ IF hasActiveWork(Cur) /\ ~force
       THEN /\ clearResp' = [code |-> "409", after |-> NoStats, force |-> FALSE, active |-> TRUE]
            /\ UNCHANGED <<jobs, jobControllers, queue, isRendering, persistTimer, ctl, pc,
                           desc, clearPc>>
       ELSE /\ clearsDone < MaxClears
            /\ clearResp' = [code |-> "pending", after |-> NoStats, force |-> force,
                              active |-> hasActiveWork(Cur)]
            /\ clearPc' = "before"
            /\ Commit(IF force THEN cancelAllControllers(Cur) ELSE Cur)
    /\ UNCHANGED <<nextId, clearsDone, restarts, purge>>
    /\ UnchangedFiles

\* clearRenderCache: the in-memory state is dropped and the directories and the
\* job file are removed
clearRenderCache(S) ==
    [S EXCEPT !.jobs = EmptyTable, !.queue = <<>>, !.jobControllers = {},
              !.isRendering = FALSE,
              !.desc = [j \in JobIds |-> IF j \in Range(S.queue) THEN NoJob ELSE @[j]]]

ClearWipe ==
    /\ clearPc = "before"
    /\ Commit(clearRenderCache(Cur))
    /\ uploads' = {}
    /\ cache' = [a \in Artifacts |-> "absent"]
    /\ outputs' = {}
    /\ jobsFile' = MissingFile
    /\ clearPc' = "rebuild"
    /\ UNCHANGED <<nextId, clearResp, clearsDone, restarts, purge>>

\* the directories are recreated and the bundle rebuilt; then `after` is measured
ClearFinish ==
    /\ clearPc = "rebuild"
    /\ clearPc' = "idle"
    /\ clearResp' = [clearResp EXCEPT !.code = "200", !.after = getCacheStats]
    /\ clearsDone' = clearsDone + 1
    /\ UNCHANGED <<jobs, jobControllers, queue, isRendering, persistTimer, ctl, pc, desc,
                   nextId, restarts, purge>>
    /\ UnchangedFiles

(***************************************************************************)
(* POST /api/asset/:assetId/purge.  A name on disk is the sequence of the  *)
(* parts of the file name and of the dashes between them; an asset id of   *)
(* a request is a sequence of characters.  Nothing in the server writes    *)
(* into uploads/transcoded, which stays empty.                             *)
(***************************************************************************)
\* the asset ids of the purge requests: "a", "a-x" and "a x"
PurgeIds == {<<"a">>, <<"a", "-", "x">>, <<"a", " ", "x">>}

RECURSIVE DiskName(_)
\* the parts of a file name joined by dashes
DiskName(parts) ==
    IF Len(parts) <= 1 THEN parts ELSE <<Head(parts), "-">> \o DiskName(Tail(parts))

\* entry.name.startsWith(prefix)
startsWith(name, prefix) ==
    Len(name) >= Len(prefix) /\ SubSeq(name, 1, Len(prefix)) = prefix

\* the files of a listing chosen by the asset id parsed out of their name
prefixed_ByParsedAssetId(names, assetId) ==
    {n \in names : Len(n) > 1 /\ <<n[1]>> = sanitizeName(assetId)}

\* entries.filter(entry => entry.isFile() && entry.name.startsWith(`${assetId}-`))
prefixed(names, assetId) ==
    {n \in names : startsWith(n, sanitizeName(assetId) \o <<"-">>)}

NoPurge == [pc |-> "idle", id |-> <<>>, uploads |-> {}, cache |-> {}, answer |-> "none"]

\* The handler up to the return of readdir: the listings are filtered and the
\* removals issued.
PurgeRead(assetId) ==
    /\ purge.pc = "idle"
    /\ purge' = [pc |-> "rm", id |-> assetId, answer |-> "none",
                 uploads |-> IF DirsMissing THEN {}
                             ELSE {u \in uploads :
                                     DiskName(FileName(u)) \in
                                       prefixed({DiskName(FileName(v)) : v \in uploads}, assetId)},
                 cache |-> IF DirsMissing THEN {}
                           ELSE {a \in Artifacts :
                                   /\ cache[a] # "absent"
                                   /\ DiskName(a) \in
                                        prefixed({DiskName(b) : b \in Artifacts}, assetId)}]
    /\ UNCHANGED <<jobs, jobControllers, queue, isRendering, persistTimer, ctl, pc, desc,
                   nextId, clearPc, clearResp, clearsDone, restarts>>
    /\ UnchangedFiles

\* fs.rm(..., { force: true }) of every file chosen, then res.json({ ok: true })
PurgeRemove ==
    /\ purge.pc = "rm"
    /\ uploads' = uploads \ purge.uploads
    /\ cache' = [a \in Artifacts |-> IF a \in purge.cache THEN "absent" ELSE cache[a]]
    /\ purge' = [NoPurge EXCEPT !.answer = "ok"]
    /\ UNCHANGED <<jobs, jobControllers, queue, isRendering, persistTimer, ctl, pc, desc,
                   nextId, jobsFile, outputs, clearPc, clearResp, clearsDone, restarts>>

(***************************************************************************)
(* Startup.                                                                *)
(***************************************************************************)
\* the statuses rewritten at startup, 'cancelling' forgotten
RestartStatuses_NoCancelling == {"rendering", "queued", "normalizing"}
RestartStatuses == {"rendering", "queued", "normalizing", "cancelling"}

\* the state of a process that has just started
FreshProcess ==
    [jobs |-> EmptyTable, jobControllers |-> {}, queue |-> <<>>, isRendering |-> FALSE,
     persistTimer |-> FALSE, ctl |-> [j \in JobIds |-> NewController],
     pc |-> [j \in JobIds |-> Idle], desc |-> [j \in JobIds |-> NoJob]]

RECURSIVE failInterrupted(_, _)
\* jobs.forEach: a loaded job in a non-terminal status is rewritten as failed
failInterrupted(S, ids) ==
    IF ids = {} THEN S
    ELSE LET j == CHOOSE x \in ids : TRUE
             S1 == IF S.jobs[j].status \in RestartStatuses
                   THEN updateJob(S, j, [status |-> "failed", error |-> RestartMsg])
                   ELSE S
         IN failInterrupted(S1, ids \ {j})

\* loadJobsFromDisk giving up at an entry without a jobId
loadJobsFromDisk_NoSkip(S, file) ==
    IF ~file.exists \/ file.shape # "array" \/ file.anonymous # {} THEN S
    ELSE failInterrupted([S EXCEPT !.jobs = file.table], DOMAIN file.table)

\* readFile fails with ENOENT, JSON.parse throws (both caught), or the value is
\* not an array: nothing is loaded.  Otherwise every entry with a jobId is
\* loaded, the others being skipped, and the interrupted jobs are failed.
loadJobsFromDisk(S, file) ==
    IF ~file.exists THEN S
    ELSE IF file.shape # "array" THEN S
    ELSE failInterrupted([S EXCEPT !.jobs = file.table], DOMAIN file.table)

\* The process stops (every continuation and timer is lost) and bootstrap runs again.
Restart ==
    /\ restarts < MaxRestarts
    /\ restarts' = restarts + 1
    /\ Commit(loadJobsFromDisk(FreshProcess, jobsFile))
    /\ clearPc' = "idle"
    /\ clearResp' = NoResponse
    /\ purge' = NoPurge
    /\ UNCHANGED <<nextId, clearsDone>>
    /\ UnchangedFiles

\* what may happen to jobs.json while the process is down: nothing, a write cut
\* short by the stop (no valid JSON), a file holding an object, an entry
\* losing its jobId
Damages == {"none", "torn", "object", "anonymous"}

Damaged(file, damage) ==
    CASE damage = "torn" -> {[file EXCEPT !.exists = TRUE, !.shape = "invalid"]}
      [] damage = "object" -> {[file EXCEPT !.exists = TRUE, !.shape = "object"]}
      [] damage = "anonymous" ->
            {[file EXCEPT !.table = [k \in DOMAIN file.table \ {j} |-> file.table[k]],
                          !.anonymous = @ \cup {file.table[j]}] : j \in DOMAIN file.table}
      [] OTHER -> {file}

\* The process stops, jobs.json is found damaged, and bootstrap runs again.
RestartAfterDamage(damage) ==
    /\ restarts < MaxRestarts
    /\ restarts' = restarts + 1
    /\ jobsFile' \in Damaged(jobsFile, damage)
    /\ Commit(loadJobsFromDisk(FreshProcess, jobsFile'))
    /\ clearPc' = "idle"
    /\ clearResp' = NoResponse
    /\ purge' = NoPurge
    /\ UNCHANGED <<nextId, clearsDone, uploads, cache, outputs>>

(***************************************************************************)
(* Specifications.                                                         *)
(***************************************************************************)
Init ==
    /\ jobs = FreshProcess.jobs
    /\ jobControllers = FreshProcess.jobControllers
    /\ queue = FreshProcess.queue
    /\ isRendering = FreshProcess.isRendering
    /\ persistTimer = FreshProcess.persistTimer
    /\ ctl = FreshProcess.ctl
    /\ pc = FreshProcess.pc
    /\ desc = FreshProcess.desc
    /\ nextId = 1
    /\ jobsFile = MissingFile
    /\ uploads = {}
    /\ cache = [a \in Artifacts |-> "absent"]
    /\ outputs = {}
    /\ clearPc = "idle"
    /\ clearResp = NoResponse
    /\ clearsDone = 0
    /\ restarts = 0
    /\ purge = NoPurge


\* the continuation of job j's pipeline that ends the await it is suspended at
PipelineReturn(j) ==
    \/ PrepDone(j)
    \/ \E ok \in BOOLEAN : FfmpegClose(j, ok)
    \/ \E ok \in BOOLEAN : ProbeDone(j, ok)
    \/ \E ok \in BOOLEAN : SelectDone(j, ok)
    \/ \E ok \in BOOLEAN : RenderDone(j, ok)

\* Uploads, submissions, cancellations and the asynchronous steps of the pipeline,
\* for at most maxJobs submissions of jobs whose display name is drawn from
\* names, whose volume fields from mixes, whose first video from video1s, whose
\* second video from video2s and whose background audio from bgms.
RequestSchedStep(maxJobs, names, mixes, video1s, video2s, bgms) ==
    \/ \E u \in video1s \cup ((video2s \cup bgms) \ {NoPath}) : Upload(u)
    \/ /\ nextId <= maxJobs
       /\ \E name \in names, mix \in mixes, v1 \in video1s, v2 \in video2s, bgm \in bgms :
             SubmitRender(name, mix, v1, v2, bgm)
    \/ \E j \in JobIds : PipelineReturn(j)
    \/ \E j \in JobIds : FfmpegOpensOutput(j)
    \/ \E j \in JobIds, p \in EngineProgress : RenderProgress(j, p)
    \/ \E j \in JobIds : CancelRequest(j)

\* The same for requests without a display name (the output is render-<jobId>)
\* and without volume fields.
SchedStep(maxJobs, video1s, video2s, bgms) ==
    RequestSchedStep(maxJobs, {NoName}, {NoMix}, video1s, video2s, bgms)

\* The scheduler in normal operation: no cache clear, no restart.
Next == SchedStep(MaxMixedJobs, OneVideo, OneVideo \cup {NoPath}, AudioUploads \cup {NoPath})
Spec == Init /\ [][Next]_vars

\* The scheduler with more jobs waiting, each of one video.
QueueNext == SchedStep(MaxJobs, OneVideo, {NoPath}, {NoPath})
QueueSpec == Init /\ [][QueueNext]_vars

\* The scheduler for jobs of one video submitted with display names.
OutputNext == RequestSchedStep(MaxMixedJobs, RenderNames, {NoMix}, OneVideo, {NoPath}, {NoPath})

\* The scheduler for jobs of one video and a background audio, submitted with
\* volume fields.
GainNext == RequestSchedStep(MaxMixedJobs, {NoName}, Mixes, OneVideo, {NoPath}, AudioUploads)
GainSpec == Init /\ [][GainNext]_vars
OutputSpec == Init /\ [][OutputNext]_vars

\* The scheduler with uploads that share their bytes or already meet the
\* target profile, for jobs of one video.
MediaNext == SchedStep(MaxMixedJobs, {"va", "vb", "vn"}, {NoPath}, {NoPath})
MediaSpec == Init /\ [][MediaNext]_vars

\* Uploads of a clip of asset "a" and of a clip of asset "a-x", jobs on the
\* first that nobody cancels, purges, and cache clears requested without force.
PurgeNext ==
    \/ \E u \in {"va", "vd"} : Upload(u)
    \/ /\ nextId <= MaxPurgeJobs
       /\ SubmitRender(NoName, NoMix, "va", NoPath, NoPath)
    \/ \E j \in JobIds : PipelineReturn(j)
    \/ \E j \in JobIds : FfmpegOpensOutput(j)
    \/ \E assetId \in PurgeIds : PurgeRead(assetId)
    \/ PurgeRemove
    \/ ClearRequest(FALSE)
    \/ ClearWipe
    \/ ClearFinish
PurgeSpec == Init /\ [][PurgeNext]_vars

\* Uploads of the same two clips, jobs on the clip of asset "a-x", and purges.
DashedPurgeNext ==
    \/ \E u \in {"va", "vd"} : Upload(u)
    \/ /\ nextId <= MaxPurgeJobs
       /\ SubmitRender(NoName, NoMix, "vd", NoPath, NoPath)
    \/ \E j \in JobIds : PipelineReturn(j)
    \/ \E j \in JobIds : FfmpegOpensOutput(j)
    \/ \E j \in JobIds : CancelRequest(j)
    \/ \E assetId \in PurgeIds : PurgeRead(assetId)
    \/ PurgeRemove
DashedPurgeSpec == Init /\ [][DashedPurgeNext]_vars

\* The scheduler (jobs of one video), purges of the asset of that video, and
\* cache clears, forced or not.
StoreNext ==
    \/ SchedStep(MaxPurgeJobs, OneVideo, {NoPath}, {NoPath})
    \/ PurgeRead(<<"a">>)
    \/ PurgeRemove
    \/ \E force \in BOOLEAN : ClearRequest(force)
    \/ ClearWipe
    \/ ClearFinish
StoreSpec == Init /\ [][StoreNext]_vars

\* Every await of a running pipeline eventually returns (an external process
\* that hangs is outside this specification).
LiveNext == SchedStep(MaxMixedJobs, OneVideo, OneVideo \cup {NoPath}, AudioUploads \cup {NoPath})
LiveSpec == Init /\ [][LiveNext]_vars /\ \A j \in JobIds : WF_vars(PipelineReturn(j))

\* The scheduler (jobs of one video), the debounced write of the job table,
\* and restarts.
CrashNext ==
    \/ SchedStep(MaxAdminJobs, OneVideo, {NoPath}, {NoPath})
    \/ \E ok \in BOOLEAN : PersistFire(ok)
    \/ Restart
CrashSpec == Init /\ [][CrashNext]_vars

\* The scheduler (jobs of one video) and the debounced write of the job table.
\* Every await of a running pipeline eventually returns and an armed timer
\* eventually fires (setTimeout, 300 ms); whether the write succeeds is up to
\* the file system.
PersistNext ==
    \/ SchedStep(MaxAdminJobs, OneVideo, {NoPath}, {NoPath})
    \/ \E ok \in BOOLEAN : PersistFire(ok)
PersistSpec ==
    /\ Init
    /\ [][PersistNext]_vars
    /\ \A j \in JobIds : WF_vars(PipelineReturn(j))
    /\ WF_vars(\E ok \in BOOLEAN : PersistFire(ok))

\* Jobs of one video that nobody cancels, the debounced write of the job
\* table, and restarts that find jobs.json damaged or not.
StartupNext ==
    \/ Upload("va")
    \/ /\ nextId <= MaxAdminJobs
       /\ SubmitRender(NoName, NoMix, "va", NoPath, NoPath)
    \/ \E j \in JobIds : PipelineReturn(j)
    \/ \E j \in JobIds : FfmpegOpensOutput(j)
    \/ \E ok \in BOOLEAN : PersistFire(ok)
    \/ \E damage \in Damages : RestartAfterDamage(damage)
StartupSpec == Init /\ [][StartupNext]_vars

\* The scheduler (jobs of one video) and cache clears requested without force.
UnforcedClearNext ==
    \/ SchedStep(MaxAdminJobs, OneVideo, {NoPath}, {NoPath})
    \/ ClearRequest(FALSE)
    \/ ClearWipe
    \/ ClearFinish
UnforcedClearSpec == Init /\ [][UnforcedClearNext]_vars

\* The scheduler (jobs of one video), the debounced write, and cache clears.
ClearNext ==
    \/ SchedStep(MaxAdminJobs, OneVideo, {NoPath}, {NoPath})
    \/ \E ok \in BOOLEAN : PersistFire(ok)
    \/ \E force \in BOOLEAN : ClearRequest(force)
    \/ ClearWipe
    \/ ClearFinish
ClearSpec == Init /\ [][ClearNext]_vars


(***************************************************************************)
(* Properties.                                                             *)
(***************************************************************************)
Known == DOMAIN jobs
Status(j) == jobs[j].status
Submitted == 1..(nextId - 1)
InFlight == {j \in JobIds : pc[j] # Idle /\ pc[j] # Done}
StaysKnown(j) == j \in DOMAIN jobs /\ j \in DOMAIN jobs'

\* C1: at most one job has status normalizing or rendering, and at most one
\* job's pipeline is in flight, in every state the scheduler reaches by
\* submissions, cancellations and completions of pipeline steps.
C1_SingleRenderSlot ==
    /\ Cardinality({j \in Known : Status(j) \in {"normalizing", "rendering"}}) <= 1
    /\ Cardinality(InFlight) <= 1

\* a job is rendering while another waits in the queue
C1_Witness ==
    /\ \E j \in Known : Status(j) = "rendering"
    /\ Len(queue) >= 1

\* C2: every change of a job's status is an edge of the job state machine; a
\* job in 'cancelling' never goes back to normalizing or rendering.
StatusEdges ==
    {<<"queued", "normalizing">>, <<"normalizing", "rendering">>, <<"rendering", "completed">>,
     <<"normalizing", "cancelling">>, <<"rendering", "cancelling">>,
     <<"cancelling", "cancelled">>, <<"queued", "cancelled">>, <<"normalizing", "cancelled">>}
    \cup {<<s, "failed">> : s \in ActiveStatuses}

C2_OnlyStateMachineEdges ==
    [][\A j \in JobIds :
          (StaysKnown(j) /\ jobs'[j].status # jobs[j].status)
              => <<jobs[j].status, jobs'[j].status>> \in StatusEdges]_vars

\* C3: the progress stored for a job never decreases while the job is not terminal.
C3_ProgressNeverDecreases ==
    [][\A j \in JobIds :
          (StaysKnown(j) /\ jobs[j].status \notin TerminalStatuses)
              => jobs'[j].progress >= jobs[j].progress]_vars

\* C4: cancelling an active job sets the controller's flag, leaves no running
\* process and sets status cancelling; from then on the job cannot fail or
\* complete, it eventually is cancelled, and the step that makes it cancelled
\* releases the slot and starts the head of the queue.
CancelsActive(j) ==
    /\ CancelRequest(j)
    /\ j \in Known
    /\ Status(j) \in {"normalizing", "rendering"}

BecomesCancelled(j) ==
    /\ StaysKnown(j)
    /\ jobs[j].status \in {"normalizing", "rendering", "cancelling"}
    /\ jobs'[j].status = "cancelled"

C4_ActiveCancelEndsCancelled ==
    /\ [][\A j \in JobIds :
             CancelsActive(j) =>
                 /\ ctl'[j].cancelled
                 /\ ~ctl'[j].activeProcess
                 /\ jobs'[j].status = "cancelling"]_vars
    /\ [][\A j \in JobIds :
             (StaysKnown(j) /\ ctl[j].cancelled) =>
                 jobs'[j].status \notin {"failed", "completed"}]_vars
    /\ \A j \in JobIds :
          (j \in Known /\ Status(j) = "cancelling") ~> (j \in Known /\ Status(j) = "cancelled")
    /\ [][\A j \in JobIds :
             BecomesCancelled(j) =>
                 /\ j \notin jobControllers'
                 /\ IF queue = <<>>
                    THEN ~isRendering' /\ jobControllers' = {}
                    ELSE /\ isRendering'
                         /\ jobControllers' = {Head(queue)}
                         /\ jobs'[Head(queue)].status = "normalizing"
                         /\ queue' = Tail(queue)]_vars

\* a job that ran has been cancelled and the job queued behind it is running
C4_Witness ==
    \E j, k \in Known :
        /\ Status(j) = "cancelled"
        /\ pc[j] = Done
        /\ k > j
        /\ Status(k) = "normalizing"

\* C5: cancelling a queued job removes it from the queue and makes it
\* cancelled in the same step; a submitted job that is neither queued nor
\* started is never queued, started or given a controller afterwards.
C5_QueuedCancelIsFinal ==
    /\ [][\A j \in JobIds :
             (CancelRequest(j) /\ j \in Range(queue)) =>
                 /\ j \notin Range(queue')
                 /\ jobs'[j].status = "cancelled"
                 /\ pc'[j] = Idle]_vars
    /\ [][\A j \in Submitted :
             (j \notin Range(queue) /\ pc[j] = Idle) =>
                 /\ j \notin Range(queue')
                 /\ pc'[j] = Idle
                 /\ j \notin jobControllers'
                 /\ j \in DOMAIN jobs' => jobs'[j].status = "cancelled"]_vars

\* a job was cancelled in the queue and a job submitted after it has been started
C5_Witness ==
    \E j, k \in Known :
        /\ Status(j) = "cancelled"
        /\ pc[j] = Idle
        /\ k > j
        /\ pc[k] # Idle

\* C6: when a job starts, every job submitted before it has started already
\* or was cancelled while it was queued (ids are handed out in submission order).
C6_StartsInSubmissionOrder ==
    [][\A b \in JobIds :
          (pc[b] = Idle /\ pc'[b] # Idle) =>
              \A a \in 1..(b - 1) :
                  pc[a] # Idle \/ (a \in Known /\ Status(a) = "cancelled")]_vars

\* the third job is started after the first two, none of them cancelled
C6_Witness ==
    /\ nextId > 3
    /\ pc[1] = Done /\ pc[2] = Done /\ pc[3] # Idle
    /\ \A j \in 1..3 : j \in Known /\ Status(j) # "cancelled"

\* C10: a partial file at a cache artifact's name only exists while the
\* transcode that writes it is running.
BeingWritten(a) == \E j \in JobIds : Step(j) = "writing" /\ Artifact(j) = a

C10_NoPartialArtifactLeft ==
    \A a \in Artifacts : cache[a] = "partial" => BeingWritten(a)


\* C7: a restart loads exactly the persisted records, rewrites those in a
\* non-terminal status as failed with the restart message and leaves the
\* others as they are; the queue is empty, no controller exists, nothing
\* runs, and a job that is neither queued nor running is never started.
RestartStep == restarts' = restarts + 1

Reloaded(old) ==
    IF old.status \in {"queued", "normalizing", "rendering", "cancelling"}
    THEN [old EXCEPT !.status = "failed", !.error = RestartMsg]
    ELSE old

C7_RestartFailsInterruptedJobs ==
    /\ [][RestartStep =>
             /\ DOMAIN jobs' = IF jobsFile.exists THEN DOMAIN jobsFile.table ELSE {}
             /\ \A j \in DOMAIN jobs' : jobs'[j] = Reloaded(jobsFile.table[j])
             /\ queue' = <<>>
             /\ jobControllers' = {}
             /\ ~isRendering'
             /\ \A j \in JobIds : pc'[j] = Idle]_vars
    /\ [][\A j \in Submitted :
             (j \notin Range(queue) /\ pc[j] = Idle) =>
                 (j \notin Range(queue') /\ pc'[j] = Idle /\ j \notin jobControllers')]_vars

\* after a restart an interrupted job is failed with the restart message
\* while a job submitted since is running
C7_Witness ==
    /\ restarts = 1
    /\ \E j, k \in Known :
          /\ Status(j) = "failed"
          /\ jobs[j].error = RestartMsg
          /\ pc[j] = Idle
          /\ Status(k) = "rendering"

\* C8: a clear request without force while work is active answers 409 and
\* changes neither the job table, the queue, the controllers nor any file.
ActiveWork ==
    \/ queue # <<>>
    \/ jobControllers # {}
    \/ isRendering
    \/ \E j \in Known : Status(j) \in {"queued", "normalizing", "rendering", "cancelling"}

C8_UnforcedClearRefusedWhileActive ==
    [][(ClearRequest(FALSE) /\ ActiveWork) =>
          /\ clearResp'.code = "409"
          /\ UNCHANGED <<jobs, queue, jobControllers, isRendering, ctl, pc, desc, persistTimer,
                         jobsFile, uploads, cache, outputs, clearPc>>]_vars

\* a clear was refused while a job is rendering and another waits
C8_Witness ==
    /\ clearResp.code = "409"
    /\ queue # <<>>
    /\ \E j \in Known : Status(j) = "rendering"

\* C9: once a forced clear of an active server has answered, the uploads,
\* cache, output and job-file buckets it reports are empty, and they are
\* empty for as long as nothing has been uploaded since the wipe (a
\* submission needs an upload).
C9_ForcedClearLeavesNothing ==
    (clearResp.code = "200" /\ clearResp.force /\ clearResp.active) =>
        /\ clearResp.after.uploads = 0 => clearResp.after = NoStats
        /\ uploads = {} => getCacheStats = NoStats

\* C11: uploads with the same bytes resolve to the same cache artifact, so the
\* transcoder is started for given bytes only while no finished artifact of
\* those bytes is in the cache: a later normalization of the bytes, under
\* whatever asset id, is a cache hit.
SameBytesArtifacts(j) ==
    {a \in Artifacts : a[2] = hashFile(Source(j)) /\ a[3] = Artifact(j)[3]}
SpawnsTranscode(j) == Step(j) = "prep" /\ pc'[j] = <<Stage(j), "ffmpeg">>
C11_SameBytesOneTranscode ==
    [][\A j \in JobIds :
          SpawnsTranscode(j) => \A a \in SameBytesArtifacts(j) : cache[a] # "ok"]_vars

\* C12: a submission creates a job record and a queue entry only if video1 is
\* given and every upload it refers to (video1, video2, the background audio)
\* exists on disk; any other submission is answered 400 and enqueues nothing.
Accepted(j) == j \notin DOMAIN jobs /\ j \in DOMAIN jobs' /\ nextId' = nextId + 1
C12_SubmissionNeedsEveryUpload ==
    [][\A j \in JobIds :
          Accepted(j) =>
              /\ desc'[j].video1 \in uploads
              /\ desc'[j].video2 \in uploads \cup {NoPath}
              /\ desc'[j].bgm \in uploads \cup {NoPath}]_vars

\* C13: every record of the job table has a numeric progress within 0..100,
\* the records written by a pipeline continuation after a cache clear included.
C13_ProgressDefinedAndBounded ==
    \A j \in DOMAIN jobs : jobs[j].progress \in 0..100

\* C14: a job has a download URL exactly when it is completed; a completed job
\* has progress 100 and the download URL of its own id; the download endpoint
\* answers 404 for every job that is not completed.
HasOutputUrl(j) == jobs[j].outputUrl \notin {Undefined, Null}
C14_OutputUrlIffCompleted ==
    \A j \in JobIds :
        /\ j \in Known => (HasOutputUrl(j) <=> Status(j) = "completed")
        /\ (j \in Known /\ Status(j) = "completed") =>
               (jobs[j].progress = 100 /\ jobs[j].outputUrl = DownloadUrl(j))
        /\ ~(j \in Known /\ Status(j) = "completed") => download(j) = "404"

\* after a restart, one job is completed and served and another is not completed
C14_Witness ==
    /\ restarts > 0
    /\ \E j \in Known : Status(j) = "completed" /\ download(j) = "file"
    /\ \E k \in Known : Status(k) \in {"failed", "cancelled"}

\* C15: when a step of a job's pipeline throws, the job is finalized as
\* 'cancelled' with the cancellation message if its controller's flag is set at
\* that moment and as 'failed' with the error's message otherwise; no other
\* job's record changes, except that the head of the queue is started.
Throws(j) ==
    /\ j \in InFlight
    /\ pc'[j] = Done
    /\ j \in DOMAIN jobs'
    /\ jobs'[j].status # "completed"
StartedNext(k) == queue # <<>> /\ k = Head(queue) /\ pc'[k] = <<"v1", "prep">>
C15_ThrowFinalizesOnlyThatJob ==
    [][\A j \in JobIds :
          Throws(j) =>
              /\ ctl[j].cancelled =>
                     (jobs'[j].status = "cancelled" /\ jobs'[j].error = CancelledMsg)
              /\ ~ctl[j].cancelled =>
                     (jobs'[j].status = "failed" /\ jobs'[j].error = ToolError)
              /\ \A k \in Known \ {j} :
                     \/ jobs'[k] = jobs[k]
                     \/ StartedNext(k) /\ jobs'[k].status = "normalizing"
              /\ queue # <<>> => (StartedNext(Head(queue)) /\ isRendering')]_vars

\* a step has thrown for the running job while another job waited: the first is
\* failed and the second has been started
C15_Witness ==
    \E j, k \in Known :
        /\ Status(j) = "failed" /\ jobs[j].error = ToolError
        /\ pc[j] = Done
        /\ j < k
        /\ k \in InFlight

\* C16: a submitted job that is never cancelled and none of whose steps fails
\* (it is never 'cancelling', 'cancelled' or 'failed') is queued, normalizing
\* and rendering in that order and eventually completed; from then on a poll
\* returns 'completed' and the download endpoint serves its output.  (A job
\* submitted to a free slot is queued and started in one synchronous run, so
\* its record is first seen as 'normalizing'.)
NeverStopped(j) == j \in Known => Status(j) \notin {"cancelling", "cancelled", "failed"}
Served(j) == j \in Known /\ poll(j) = "completed" /\ download(j) = "file"
HappyEdges ==
    {<<"queued", "normalizing">>, <<"normalizing", "rendering">>, <<"rendering", "completed">>}
C16_UncancelledJobCompletes ==
    /\ [][\A j \in JobIds :
             /\ (j \notin Known /\ j \in DOMAIN jobs') =>
                    jobs'[j].status = IF isRendering THEN "queued" ELSE "normalizing"
             /\ (StaysKnown(j) /\ jobs'[j].status # Status(j) /\ NeverStopped(j)'
                 /\ NeverStopped(j)) => <<Status(j), jobs'[j].status>> \in HappyEdges
             /\ Served(j) => Served(j)']_vars
    /\ \A j \in JobIds : (<>(j \in Known) /\ []NeverStopped(j)) => <>Served(j)

\* a job of two videos and a background audio has been completed and is served
\* (the job of the pipeline test)
C16_Witness ==
    \E j \in Known : Served(j) /\ jobs[j].error = Null /\ cache[AudioArtifact("ma")] = "ok"

\* C17: a cancel request for a terminal job or an unknown id changes nothing
\* in the job table, the queue or the controllers (nor anywhere else in the
\* scheduler's state); it answers ok for a failed or cancelled job and 400 for
\* a completed or unknown one.
C17_CancelOfStoppedJobIsNoOp ==
    \A j \in JobIds :
        (j \notin Known \/ Status(j) \in TerminalStatuses) =>
            /\ cancelJob(Cur, j) = Cur
            /\ cancelAnswer(Cur, j) =
                   IF j \in Known /\ Status(j) \in {"failed", "cancelled"} THEN "ok" ELSE "400"

\* one job is completed, another failed or cancelled, a third id unknown
C17_Witness ==
    /\ \E j \in Known : Status(j) = "completed"
    /\ \E j \in Known : Status(j) \in {"failed", "cancelled"}
    /\ \E j \in JobIds : j \notin Known

\* C18: normalizing a source video that already satisfies the target profile
\* (h264, yuv420p, average frame rate within 0.05 of 24, declared and average
\* frame rate within 0.05 of each other) returns the source path unchanged,
\* starts no transcode and creates no cache artifact.
SatisfiesTargetProfile(u) ==
    /\ u \in VideoUploads
    /\ probeMedia(u).codec = "h264"
    /\ probeMedia(u).pixFmt = "yuv420p"
    /\ Abs(probeMedia(u).avgFps - 24000) <= 50
    /\ Abs(probeMedia(u).rFps - probeMedia(u).avgFps) <= 50
NormalizesProfiled(j) ==
    /\ Stage(j) \in {"v1", "v2"}
    /\ Step(j) = "prep"
    /\ SatisfiesTargetProfile(Source(j))
    /\ pc'[j] # pc[j]
    /\ pc'[j] # Done
C18_ProfiledSourceIsReturnedAsIs ==
    /\ [][\A j \in JobIds :
             NormalizesProfiled(j) =>
                 /\ pc'[j] = <<Stage(j), "probe">>
                 /\ Resolved(j) = Source(j)
                 /\ ~ctl'[j].activeProcess
                 /\ cache' = cache]_vars
    /\ [](\A u \in VideoUploads :
             SatisfiesTargetProfile(u) => cache[VideoArtifact(u)] = "absent")

\* a job whose video already satisfies the profile has gone through
\* normalization and is rendering
C18_Witness ==
    \E j \in Known :
        /\ desc[j].video1 = "vn"
        /\ SatisfiesTargetProfile(desc[j].video1)
        /\ Status(j) = "rendering"

\* C19: a purge of an asset id deletes exactly the files of the upload and
\* cache directories whose name starts with the sanitized id followed by '-'
\* (those the directories held when they were read), leaves every other file,
\* the job table, the queue, the controllers and the outputs as they were, and
\* answers ok, also while a directory is missing.
NamedFor(name, assetId) == startsWith(name, sanitizeName(assetId) \o <<"-">>)
ListsForPurge == purge.pc = "idle" /\ purge'.pc = "rm"
RemovesForPurge == purge.pc = "rm" /\ purge'.pc = "idle"
SchedulerUntouched ==
    UNCHANGED <<jobs, jobControllers, queue, isRendering, ctl, pc, desc, outputs, jobsFile>>
C19_PurgeDeletesExactlyPrefixed ==
    [][/\ ListsForPurge =>
             /\ purge'.uploads =
                    IF DirsMissing THEN {}
                    ELSE {u \in uploads : NamedFor(DiskName(FileName(u)), purge'.id)}
             /\ purge'.cache =
                    IF DirsMissing THEN {}
                    ELSE {a \in Artifacts :
                            cache[a] # "absent" /\ NamedFor(DiskName(a), purge'.id)}
             /\ UNCHANGED <<uploads, cache>>
             /\ SchedulerUntouched
       /\ RemovesForPurge =>
             /\ uploads' = uploads \ purge.uploads
             /\ \A a \in Artifacts :
                    cache'[a] = IF a \in purge.cache THEN "absent" ELSE cache[a]
             /\ SchedulerUntouched
             /\ purge'.answer = "ok"]_vars

\* a purge of "a-x" has removed the upload of asset "a-x" and left the upload
\* and the artifacts of asset "a" in place
C19_Witness ==
    /\ purge.answer = "ok"
    /\ "va" \in uploads
    /\ "vd" \notin uploads
    /\ cache[VideoArtifact("va")] = "ok"

\* C20: when a running job terminates, by whatever outcome, the render slot is
\* released and the head of the queue is started in the same step; no job is
\* queued while the slot is free; and, every await of a running pipeline
\* eventually returning, every queued job eventually starts or is cancelled.
Terminates(j) == j \in InFlight /\ pc'[j] = Done
C20_QueueHeadStartsAtTermination ==
    /\ [][\A j \in JobIds :
             Terminates(j) =>
                 /\ j \notin jobControllers'
                 /\ IF queue = <<>>
                    THEN ~isRendering' /\ InFlight' = {}
                    ELSE /\ isRendering'
                         /\ queue' = Tail(queue)
                         /\ InFlight' = {Head(queue)}
                         /\ pc'[Head(queue)] = <<"v1", "prep">>
                         /\ jobs'[Head(queue)].status = "normalizing"]_vars
    /\ [](queue # <<>> => isRendering)
    /\ \A j \in JobIds :
           (j \in Known /\ Status(j) = "queued")
               ~> (j \in Known /\ Status(j) \in {"normalizing", "cancelled"})

\* one job has terminated and the job that waited behind it is rendering
C20_Witness ==
    \E j, k \in Known :
        /\ j < k
        /\ Status(j) \in TerminalStatuses /\ pc[j] = Done
        /\ Status(k) = "rendering"
        /\ isRendering /\ queue = <<>>

\* C21: cache clears included, at most one job's pipeline is in flight at any
\* time, and the finally block of a pipeline never frees the render slot while
\* the pipeline of another job holds it.
C21_SingleRenderSlotAcrossClears ==
    /\ [](Cardinality(InFlight) <= 1)
    /\ [][\A j \in JobIds :
             (j \in InFlight /\ pc'[j] = Done /\ InFlight' = InFlight \ {j}
              /\ InFlight' # {}) => isRendering']_vars

\* C22: a cache clear requested without force wipes the job table, the queue
\* and the files only when no job is non-terminal: a job submitted while the
\* handler awaits the 'before' statistics makes the clear be refused or
\* survives it.
WipesUnforced == clearPc = "before" /\ clearPc' = "rebuild" /\ ~clearResp.force
C22_UnforcedClearDropsNoActiveJob ==
    [][WipesUnforced =>
          \A j \in Known : Status(j) \in ActiveStatuses => j \in DOMAIN jobs']_vars

\* C23: once a cache clear has dropped the job table, no job submitted before
\* it comes back, in memory or in the job file: a record appears in the table
\* only for the id a submission has just been given, and the job file holds
\* records of the table only.
C23_ClearedJobsStayGone ==
    /\ [][\A j \in JobIds : (j \notin Known /\ j \in DOMAIN jobs') => j = nextId]_vars
    /\ [][\A j \in JobIds :
             (j \in DOMAIN jobsFile'.table /\ jobsFile' # jobsFile) => j \in Known]_vars

\* C24: once a job is completed, failed or cancelled, no submission, cancel
\* request, progress callback or scheduler step changes its status, progress,
\* error or outputUrl; its record changes only by being removed by a cache clear.
Wipes == clearPc = "before" /\ clearPc' = "rebuild"
C24_TerminalRecordsAreFrozen ==
    [][\A j \in Known :
          Status(j) \in TerminalStatuses =>
              IF j \in DOMAIN jobs' THEN jobs'[j] = jobs[j] ELSE Wipes]_vars

\* a cache clear has gone through, the job running at that time has ended with
\* a terminal record, and a later job is in flight
C24_Witness ==
    /\ clearsDone > 0
    /\ \E j, k \in JobIds :
           /\ j < k
           /\ j \in Known /\ Status(j) \in TerminalStatuses
           /\ k \in InFlight

\* C25: once the cancellation flag is set while video 1 or video 2 is being
\* normalized, the job leaves that slot only by being finalized as 'cancelled':
\* no further input is normalized and the rendering engine is not invoked.
C25_CancelDuringVideoSlotStops ==
    [][\A j \in JobIds :
          (Stage(j) \in {"v1", "v2"} /\ ctl[j].cancelled) =>
              \/ pc'[j][1] = Stage(j)
              \/ /\ pc'[j] = Done
                 /\ j \in DOMAIN jobs'
                 /\ jobs'[j].status = "cancelled"
                 /\ jobs'[j].error = CancelledMsg]_vars

\* the flag is set and the normalization of video 2 is about to return
C25_Witness ==
    \E j \in Known :
        /\ Stage(j) = "v2" /\ Step(j) = "probe"
        /\ ctl[j].cancelled
        /\ Status(j) = "cancelling"
        /\ cache[VideoArtifact("va")] = "ok"

\* C26: after the cancellation flag of a job has been set, no progress callback
\* of the rendering engine writes to the job's record.
C26_NoProgressWriteAfterCancel ==
    [][\A j \in JobIds :
          (Step(j) = "render" /\ ctl[j].cancelled /\ pc'[j] = pc[j]) =>
              /\ j \notin Known => j \notin DOMAIN jobs'
              /\ StaysKnown(j) => jobs'[j].progress = jobs[j].progress]_vars

\* the engine had reported progress when the job was cancelled during the render
C26_Witness ==
    \E j \in Known :
        /\ Step(j) = "render"
        /\ ctl[j].cancelled
        /\ Status(j) = "cancelling"
        /\ jobs[j].progress > 5

\* C27: a job has a controller exactly while its pipeline is in flight; there
\* is at most one controller; the busy flag is set exactly when a controller
\* exists; and the controller's job is normalizing, rendering or cancelling.
C27_ControllerTracksRunningJob ==
    /\ jobControllers = InFlight
    /\ Cardinality(jobControllers) <= 1
    /\ isRendering <=> jobControllers # {}
    /\ \A j \in jobControllers :
           j \in Known /\ Status(j) \in {"normalizing", "rendering", "cancelling"}

\* C28: a job is in the queue exactly when its status is 'queued'; no job id
\* is twice in the queue; no job is in the queue and owner of a controller.
C28_QueueHoldsExactlyQueuedJobs ==
    /\ \A j \in JobIds : j \in Range(queue) <=> (j \in Known /\ Status(j) = "queued")
    /\ \A a, b \in 1..Len(queue) : queue[a] = queue[b] => a = b
    /\ Range(queue) \cap jobControllers = {}

\* two jobs wait in the queue behind a running one
C28_Witness ==
    /\ Len(queue) = 2
    /\ jobControllers # {}

\* no job is left to submit and every submitted job is finalized: the job
\* table receives no further update
UpdatesStopped ==
    /\ nextId > MaxAdminJobs
    /\ InFlight = {}
    /\ queue = <<>>
    /\ \A j \in Known : Status(j) \in TerminalStatuses

TimerFires == persistTimer /\ ~persistTimer'

\* every update arms the one timer and writes nothing itself
UpdateArmsTimer == [][jobs' # jobs => (persistTimer' /\ jobsFile' = jobsFile)]_vars

\* the file changes only when the timer fires, and then holds the whole table
WriteOnlyOnTimer ==
    [][jobsFile' # jobsFile => (TimerFires /\ jobsFile' = ArrayFile(jobs))]_vars

\* a firing timer, whether its write succeeds or fails, leaves the jobs, the
\* queue and the running job as they were
FireLeavesMemory ==
    [][TimerFires => UNCHANGED <<jobs, queue, jobControllers, isRendering, ctl, pc>>]_vars

\* C29 as stated: updates are debounced into one timer, once updates stop the
\* persisted table eventually equals the in-memory table, and a failed write
\* leaves the in-memory state unaffected.
C29_PersistedEventuallyEqualsMemory ==
    /\ UpdateArmsTimer
    /\ WriteOnlyOnTimer
    /\ FireLeavesMemory
    /\ UpdatesStopped ~> (jobsFile.table = jobs)

\* C29 amended: updates are debounced into one timer; once updates stop the
\* timer eventually fires, and a write that succeeds stores the in-memory
\* table while a failed write keeps the file as it was and is not retried;
\* either way the in-memory state is unaffected.
C29_DebouncedWriteOrStaleFile ==
    /\ UpdateArmsTimer
    /\ WriteOnlyOnTimer
    /\ FireLeavesMemory
    /\ [][TimerFires => jobsFile' \in {jobsFile, ArrayFile(jobs')}]_vars
    /\ UpdatesStopped ~> ~persistTimer
    /\ [][(UpdatesStopped /\ ~persistTimer) => (jobsFile' = jobsFile /\ jobs' = jobs)]_vars

\* updates have stopped after a failed last write: the file is stale and no
\* timer is pending
C29_Witness ==
    /\ UpdatesStopped
    /\ ~persistTimer
    /\ jobsFile.table # jobs
    /\ Known # {}

\* C30: a job whose id POST /api/render has returned is still known after a
\* crash and restart, as a terminal or restart-failed record.
Restarts == restarts' = restarts + 1
C30_SubmittedJobSurvivesRestart ==
    [][Restarts => \A j \in Submitted :
                      /\ j \in DOMAIN jobs'
                      /\ jobs'[j].status \in TerminalStatuses]_vars

\* the shapes of `updates` the handlers pass to updateJob
UpdateShapes ==
    { [status |-> "rendering", progress |-> 5, error |-> Null],
      [status |-> "cancelled", error |-> CancelledMsg],
      [status |-> "cancelling", error |-> Null],
      [progress |-> Percentage(30)],
      [status |-> "completed", progress |-> 100, outputUrl |-> DownloadUrl(1)] }

\* C31: updateJob(jobId, fields) changes only the named fields of that job's
\* record and leaves every other field of that job, and every other job's
\* record, unchanged (applied to every job of every reachable job table).
C31_UpdateJobChangesOnlyNamedFields ==
    \A jobId \in Known : \A updates \in UpdateShapes :
        \E T \in {updateJob(Cur, jobId, updates)} :
            /\ DOMAIN T.jobs = Known
            /\ \A k \in Known \ {jobId} : T.jobs[k] = jobs[k]
            /\ \A f \in DOMAIN jobs[jobId] :
                  T.jobs[jobId][f] = IF f \in DOMAIN updates THEN updates[f] ELSE jobs[jobId][f]
            /\ T.queue = queue /\ T.jobControllers = jobControllers
            /\ T.isRendering = isRendering /\ T.ctl = ctl /\ T.pc = pc

\* a completed job, whose outputUrl and outputPath are set, next to a job that
\* is being rendered
C31_Witness ==
    \E j, k \in Known :
        /\ Status(j) = "completed" /\ jobs[j].outputUrl = DownloadUrl(j)
        /\ Status(k) = "rendering" /\ jobs[k].progress > 5

Completes(k) == Step(k) = "render" /\ pc'[k] = Done /\ k \in DOMAIN jobs' /\ jobs'[k].status = "completed"

\* C32: the output file of a completed job is never overwritten by the render
\* of a different job: two jobs never share an output path, even when they
\* are submitted with the same display name.
C32_OutputPathsAreDistinct ==
    /\ [](\A j, k \in Known : j # k => jobs[j].outputPath # jobs[k].outputPath)
    /\ [][\A k \in JobIds : Completes(k) =>
             \A j \in Known \ {k} :
                 Status(j) = "completed" => jobs[j].outputPath # jobs'[k].outputPath]_vars

\* the asset id an upload was stored under: its file name without the
\* original name
UploadedAs(u) == DiskName(SubSeq(FileName(u), 1, Len(FileName(u)) - 1))

\* C33: after a purge of an asset id returns, no cache artifact derived from
\* an upload of that asset remains, also for ids that contain '-'.
C33_PurgeLeavesNoArtifactOfAsset ==
    [][RemovesForPurge =>
          /\ \A u \in VideoUploads :
                UploadedAs(u) = sanitizeName(purge.id) => cache'[VideoArtifact(u)] = "absent"
          /\ \A u \in AudioUploads :
                UploadedAs(u) = sanitizeName(purge.id) => cache'[AudioArtifact(u)] = "absent"]_vars

\* the stage of job j normalizes, off the fast path, an upload whose artifact
\* an earlier normalization has finished
Renormalizes(j) ==
    /\ Step(j) = "prep"
    /\ ~FastPath(j)
    /\ Source(j) \in uploads
    /\ cache[Artifact(j)] = "ok"
    /\ pc'[j] # pc[j]

\* C34: normalizing the same unchanged upload again after a first successful
\* normalization (video off the fast path, or audio) returns the same
\* artifact path and starts no transcode; audio normalization never returns
\* the source path itself.
C34_SecondNormalizationIsCacheHit ==
    /\ [][\A j \in JobIds :
             Renormalizes(j) =>
                 /\ pc'[j] \in {<<Stage(j), "probe">>, Done}
                 /\ pc'[j] # Done => Resolved(j) = Artifact(j)
                 /\ ~ctl'[j].activeProcess
                 /\ cache' = cache]_vars
    /\ [](\A j \in InFlight :
             Stage(j) = "a" => (~FastPath(j) /\ Resolved(j) = AudioArtifact(Source(j))))

\* after an earlier job completed, a job whose second video is the upload its
\* first video was has passed both video stages, the finished artifact being
\* in the cache, and has resolved its audio to the audio artifact
C34_Witness ==
    \E j, k \in Known :
        /\ k < j
        /\ Status(k) = "completed"
        /\ Stage(j) = "a" /\ Step(j) = "probe"
        /\ desc[j].video2 = desc[j].video1
        /\ cache[VideoArtifact(desc[j].video1)] = "ok"
        /\ cache[AudioArtifact(desc[j].bgm)] = "ok"
        /\ ~ctl[j].cancelled

RoundedAndClamped(r, p) ==
    /\ r \in 5..100
    /\ \/ 100 * r - 50 <= 500 + 95 * p /\ 500 + 95 * p < 100 * r + 50
       \/ r = 5 /\ 500 + 95 * p < 450
       \/ r = 100 /\ 500 + 95 * p >= 10050

BecomesRendering(j) ==
    /\ j \in DOMAIN jobs'
    /\ jobs'[j].status = "rendering"
    /\ (j \notin Known \/ Status(j) # "rendering")

RecordsProgress(j) ==
    /\ Step(j) = "render"
    /\ pc'[j] = pc[j]
    /\ StaysKnown(j)
    /\ jobs'[j].progress # jobs[j].progress

\* C36: while a job is 'rendering' its progress is within 5..100: the
\* transition to 'rendering' sets progress 5 and an engine progress p of [0, 1]
\* is recorded as round(5 + 95 * p) clamped to [5, 100]; while 'normalizing'
\* the progress is 1 and while 'queued' it is 0.
C36_ProgressFollowsStatus ==
    /\ [](\A j \in Known :
             /\ Status(j) = "rendering" => jobs[j].progress \in 5..100
             /\ Status(j) = "normalizing" => jobs[j].progress = 1
             /\ Status(j) = "queued" => jobs[j].progress = 0)
    /\ [](\A p \in 0..100 : RoundedAndClamped(Percentage(p), p))
    /\ [][\A j \in JobIds :
             /\ BecomesRendering(j) => jobs'[j].progress = 5
             /\ RecordsProgress(j) =>
                   \E p \in EngineProgress : RoundedAndClamped(jobs'[j].progress, p)]_vars

\* a job is rendering at the value recorded for 80 % while another is queued
C36_Witness ==
    \E j, k \in Known :
        /\ Status(j) = "rendering" /\ RoundedAndClamped(jobs[j].progress, 80)
        /\ Status(k) = "queued" /\ jobs[k].progress = 0

\* the gain of a decibel value held to -20..20
ClampedGain(db) == Pow10Over20(IF db < 0 - 20 THEN 0 - 20 ELSE IF db > 20 THEN 20 ELSE db)

HandsGain(j) == Stage(j) = "a" /\ Step(j) = "probe" /\ pc'[j] = <<"-", "select">>

\* C37: the gain handed to the engine is the request's decibel value clamped
\* to [-20, 20] dB and converted to a linear factor exactly once: a request
\* with a finite volumeDb ignores its linear volume, and resolving the stored
\* job again at render time returns the gain computed at submission.
C37_GainIsClampedDbConvertedOnce ==
    [][\A j \in JobIds :
          /\ (Accepted(j) /\ desc'[j].bgm # NoPath /\ desc'[j].request.volumeDb # NotFinite) =>
                 desc'[j].volume = ClampedGain(desc'[j].request.volumeDb)
          /\ HandsGain(j) =>
                 /\ desc'[j].handed = desc[j].volume
                 /\ desc[j].request.volumeDb # NotFinite =>
                        desc'[j].handed = ClampedGain(desc[j].request.volumeDb)]_vars

\* a request of 25 dB with a linear volume of 0.5 is being rendered with the
\* gain of 20 dB, and a request of -30 dB waits with the gain of -20 dB
C37_Witness ==
    \E j, k \in Known :
        /\ Status(j) = "rendering"
        /\ desc[j].request = [volumeDb |-> 25, volume |-> 500]
        /\ desc[j].handed = 10000
        /\ Status(k) = "queued"
        /\ desc[k].request.volumeDb = 0 - 30
        /\ desc[k].volume = 100

RECURSIVE Total(_, _)
\* the sum of a field over the buckets of an answer
Total(stats, buckets) ==
    IF buckets = {} THEN [files |-> 0, bytes |-> 0]
    ELSE LET b == CHOOSE x \in buckets : TRUE
             rest == Total(stats, buckets \ {b})
         IN [files |-> stats[b].files + rest.files, bytes |-> stats[b].bytes + rest.bytes]

\* the files present and their bytes, nothing while the directories are gone
Present(n, bytes) == IF DirsMissing THEN [files |-> 0, bytes |-> 0] ELSE [files |-> n, bytes |-> bytes]

\* C38: getStats reports, for the uploads, cache, output, bundle and job-file
\* buckets, the number of files and their total bytes, a missing directory or
\* a missing job file counting as zero files and zero bytes, and a total whose
\* file and byte counts are the sums over the five buckets.
C38_StatsCountFilesAndBytes ==
    /\ CacheStats.uploads =
           Present(Cardinality(uploads),
                   40 * Cardinality(uploads \cap {"va", "vb"}) + 30 * Cardinality(uploads \cap {"vn", "vd"})
                      + 10 * Cardinality(uploads \cap {"ma"}))
    /\ CacheStats.cache =
           Present(Cardinality({a \in Artifacts : cache[a] # "absent"}),
                   50 * Cardinality({a \in Artifacts : cache[a] = "ok"})
                      + 5 * Cardinality({a \in Artifacts : cache[a] = "partial"}))
    /\ CacheStats.output = Present(Cardinality(outputs), 60 * Cardinality(outputs))
    /\ CacheStats.bundle = Present(1, BundleBytes)
    /\ CacheStats.jobsFile =
           IF jobsFile.exists THEN [files |-> 1, bytes |-> JobsFileBytes]
           ELSE [files |-> 0, bytes |-> 0]
    /\ CacheStats.total =
           Total(CacheStats, {"uploads", "cache", "output", "bundle", "jobsFile"})

\* a clear is under way after uploads and a render: the directories and the job
\* file are gone and every bucket counts as zero
C38_Witness ==
    /\ DirsMissing
    /\ nextId > 1
    /\ ~jobsFile.exists
    /\ CacheStats.total = [files |-> 0, bytes |-> 0]

\* C39: if the persisted job file is missing, is not valid JSON or is not an
\* array, startup continues with an empty job table; entries without a jobId
\* are skipped while the remaining entries are loaded.
C39_StartupToleratesBadJobFile ==
    [][RestartStep =>
          /\ (~jobsFile'.exists \/ jobsFile'.shape # "array") => jobs' = EmptyTable
          /\ (jobsFile'.exists /\ jobsFile'.shape = "array") =>
                 /\ DOMAIN jobs' = DOMAIN jobsFile'.table
                 /\ \A j \in DOMAIN jobs' : jobs'[j] = Reloaded(jobsFile'.table[j])
          /\ queue' = <<>> /\ jobControllers' = {} /\ ~isRendering'
          /\ \A j \in JobIds : pc'[j] = Idle]_vars

\* the process has started from a file one of whose entries had no jobId: the
\* other entry is loaded, as a job failed by the restart
C39_Witness ==
    /\ restarts = 1
    /\ jobsFile.anonymous # {}
    /\ \E j \in Known : Status(j) = "failed" /\ jobs[j].error = RestartMsg
    /\ \E k \in Submitted : k \notin Known
====
